---------------------------- MODULE Spec2Model ----------------------------
(***************************************************************************)
(* A model of specify_ug_parties.py: the extraction of the candidate       *)
(* roster from the paragraphs of an HTML document                          *)
(* (parse_html_candidate_list), the name matching of a table row against   *)
(* the roster (normalize_name, find_candidate_party) and the three         *)
(* process_* drivers that replace "UG" cells of a table.                   *)
(*                                                                         *)
(* Text is a sequence of one-character strings.  Python's None and pandas' *)
(* missing value are the one-element sequences <<"None">> and <<"NaN">>,   *)
(* which no text equals (their element is not a single character).         *)
(***************************************************************************)
EXTENDS Integers, Sequences, FiniteSets, TLC

VARIABLES
    pc,                 \* the function that is running and its position
    \* parse_html_candidate_list
    paragraphs,         \* re.findall(r'<p>(.*?)</p>', content): the document's blocks
    pos,                \* index of the next paragraph of the for loop
    current_dept_code,  \* None, or group(2) of the last department header
    candidates,         \* the dictionary being built
    \* find_candidate_party
    nom, prenom, circonscription_code, candidates_dict,
    party,              \* the value returned
    \* process_*
    variant,            \* which of the three process_* functions runs
    df,                 \* the table (pd.read_excel), updated in place
    df_read,            \* the table as it was read
    i,                  \* the candidate column of the outer loop
    ug_rows,            \* df[ug_mask].index still to visit, in order
    total_ug, replaced, not_found,
    visits              \* history: how many times each cell has been visited

parseVars == <<paragraphs, pos, current_dept_code, candidates>>
findVars == <<nom, prenom, circonscription_code, candidates_dict, party>>
processVars == <<variant, df, df_read, i, ug_rows, total_ug, replaced, not_found, visits>>
vars == <<pc, parseVars, findVars, processVars>>

-----------------------------------------------------------------------------
(* Bounds of the model *)

\* the number of paragraphs of a document
MaxParagraphs == 3
\* the length of a surname or given name cell
MaxNameLen == 2
\* the length of the raw candidate name of the roster entry a row is matched against
MaxRosterLen == 3
\* the number of rows of a table
MaxRows == 2

-----------------------------------------------------------------------------
(* Python values and string methods *)

None == <<"None">>
NaN == <<"NaN">>

\* bool(x) of a str or None
Truthy(x) == x # None /\ x # <<>>

\* str.isspace of one character, \s of re
IsSpace(c) == c \in {" ", "\t", "\n"}

\* \d of re (the ASCII digits)
IsDigit(c) == c \in {"0", "1", "2", "3", "4", "5", "6", "7", "8", "9"}

UpperCase == <<"A", "B", "C", "D", "E", "F", "G", "H", "I", "J", "K", "L", "M",
               "N", "O", "P", "Q", "R", "S", "T", "U", "V", "W", "X", "Y", "Z">>
LowerCase == <<"a", "b", "c", "d", "e", "f", "g", "h", "i", "j", "k", "l", "m",
               "n", "o", "p", "q", "r", "s", "t", "u", "v", "w", "x", "y", "z">>

\* str.lower (of the unaccented letters)
LowerChar(c) ==
    IF \E k \in 1..Len(UpperCase) : UpperCase[k] = c
    THEN LowerCase[CHOOSE k \in 1..Len(UpperCase) : UpperCase[k] = c]
    ELSE c
Lower(s) == [k \in 1..Len(s) |-> LowerChar(s[k])]

\* str.strip
RECURSIVE LStrip(_)
LStrip(s) == IF s # <<>> /\ IsSpace(Head(s)) THEN LStrip(Tail(s)) ELSE s
RECURSIVE RStrip(_)
RStrip(s) ==
    IF s # <<>> /\ IsSpace(s[Len(s)]) THEN RStrip(SubSeq(s, 1, Len(s) - 1)) ELSE s
Strip(s) == RStrip(LStrip(s))

\* str.split(): the maximal runs of non-whitespace characters
RECURSIVE SplitFrom(_, _, _)
SplitFrom(s, word, words) ==
    IF s = <<>>
    THEN IF word = <<>> THEN words ELSE Append(words, word)
    ELSE IF IsSpace(Head(s))
         THEN SplitFrom(Tail(s), <<>>, IF word = <<>> THEN words ELSE Append(words, word))
         ELSE SplitFrom(Tail(s), Append(word, Head(s)), words)
Split(s) == SplitFrom(s, <<>>, <<>>)

\* ' '.join(words)
RECURSIVE JoinSpace(_)
JoinSpace(words) ==
    IF words = <<>> THEN <<>>
    ELSE IF Len(words) = 1 THEN words[1]
    ELSE words[1] \o <<" ">> \o JoinSpace(Tail(words))

\* a in b, for two str
In(a, b) == \E k \in 0..(Len(b) - Len(a)) : SubSeq(b, k + 1, k + Len(a)) = a

\* int(digits)
DigitValue(c) == CHOOSE n \in 0..9 : <<"0", "1", "2", "3", "4", "5", "6", "7", "8", "9">>[n + 1] = c
RECURSIVE ParseInt(_)
ParseInt(digits) ==
    IF digits = <<>> THEN 0
    ELSE 10 * ParseInt(SubSeq(digits, 1, Len(digits) - 1)) + DigitValue(digits[Len(digits)])

\* str(n) of a natural number
RECURSIVE IntToStr(_)
IntToStr(n) ==
    LET d == <<<<"0", "1", "2", "3", "4", "5", "6", "7", "8", "9">>[(n % 10) + 1]>>
    IN IF n < 10 THEN d ELSE IntToStr(n \div 10) \o d

\* text.zfill(width), also f"{n:0<width>d}" applied to str(n)
RECURSIVE ZFill(_, _)
ZFill(text, width) == IF Len(text) >= width THEN text ELSE ZFill(<<"0">> \o text, width)

-----------------------------------------------------------------------------
(* parse_html_candidate_list *)

PARTY_MAPPING ==
    { [key |-> <<"P","S","-","P","P">>,
       val |-> <<"P","S">>],
      [key |-> <<"L","e","s"," ","É","c","o","l","o","g","i","s","t","e","s">>,
       val |-> <<"E","E","L","V">>],
      [key |-> <<"F","I">>,
       val |-> <<"F","I">>],
      [key |-> <<"P","C","F">>,
       val |-> <<"P","C","F">>],
      [key |-> <<"G",".","s">>,
       val |-> <<"G",".","S">>],
      [key |-> <<"O","u","v","e","r","t","u","r","e">>,
       val |-> <<"D","V","G">>],
      [key |-> <<"R","E","V">>,
       val |-> <<"R","E","V">>],
      [key |-> <<"G","é","n","é","r","a","t","i","o","n"," ","é","c","o","l","o","g","i","e">>,
       val |-> <<"E","C","O">>],
      [key |-> <<"E","u","s","k","a","l"," ","H","e","r","r","i","a"," ","B","a","i">>,
       val |-> <<"R","E","G">>],
      [key |-> <<"P","i","c","a","r","d","i","e"," ","D","e","b","o","u","t">>,
       val |-> <<"D","V","G">>],
      [key |-> <<"N","P","A">>,
       val |-> <<"E","X","G">>] }

\* PARTY_MAPPING.get(party_text, party_text)
PartyMappingGet(party_text) ==
    IF \E e \in PARTY_MAPPING : e.key = party_text
    THEN (CHOOSE e \in PARTY_MAPPING : e.key = party_text).val
    ELSE party_text

(***************************************************************************)
(* A paragraph is described by the pieces the two regular expressions look *)
(* for in it, each <<>> when the paragraph has no such piece:              *)
(*   paren    the text between the parentheses that follow a               *)
(*            <strong>...</strong> element;                                *)
(*   ordinal  the digits before "ère|e|re circonscription :";              *)
(*   name     the text between that colon and the next "(";                *)
(*   ptext    the text between that "(" and the next ")".                  *)
(***************************************************************************)
Para(paren, ordinal, name, ptext) ==
    [paren |-> paren, ordinal |-> ordinal, name |-> name, ptext |-> ptext]

\* \((\d{2,3}[AB]?)\): two or three digits, then at most one of A and B
DeptCodePattern(text) ==
    \E n \in 2..3 :
        /\ Len(text) \in {n, n + 1}
        /\ \A k \in 1..n : IsDigit(text[k])
        /\ Len(text) = n + 1 => text[n + 1] \in {"A", "B"}

\* dept_match: re.search of the department header pattern
dept_match(para) == DeptCodePattern(para.paren)

\* candidate_match: (\d+), ([^(]+) and ([^)]+) each need one character or more
candidate_match(para) ==
    /\ para.ordinal # <<>> /\ \A k \in 1..Len(para.ordinal) : IsDigit(para.ordinal[k])
    /\ para.name # <<>>
    /\ para.ptext # <<>>

\* the circonscription code of lines 70-73
CirconscriptionCode(dept_code, circonscription_num) ==
    IF Len(dept_code) = 2
    THEN dept_code \o ZFill(IntToStr(ParseInt(circonscription_num)), 2)
    ELSE dept_code \o ZFill(IntToStr(ParseInt(circonscription_num)), 1)

\* ' '.join(candidate_name.lower().split())
NormalizeCandidateName(candidate_name) == JoinSpace(Split(Lower(candidate_name)))

\* the dictionary stored at the code, lines 61-66 and 76-82
CandidateInfo(para) ==
    LET candidate_name == Strip(para.name)
        party_text == Strip(para.ptext)
    IN [name |-> NormalizeCandidateName(candidate_name),
        party |-> PartyMappingGet(party_text),
        original_party_text |-> party_text]

\* candidates = {}
EmptyDict == [k \in {} |-> None]

\* SetItem with the bug of keeping the entry a code already has
SetItemKeepFirst(dict, key, info) ==
    [k \in (DOMAIN dict) \cup {key} |-> IF k \in DOMAIN dict THEN dict[k] ELSE info]

\* candidates[circonscription_code] = info
SetItem(dict, key, info) ==
    [k \in (DOMAIN dict) \cup {key} |-> IF k = key THEN info ELSE dict[k]]

\* CandidateCondition with the bug of not testing current_dept_code
CandidateConditionNoDept(para, dept_code) == candidate_match(para)

\* the condition of line 60
CandidateCondition(para, dept_code) == candidate_match(para) /\ Truthy(dept_code)

\* LoopBody with the bug of a header branch that does not "continue"
LoopBodyNoContinue(para, dept_code, dict) ==
    LET dept == IF dept_match(para) THEN para.paren ELSE dept_code
    IN IF CandidateCondition(para, dept)
       THEN [dept |-> dept,
             dict |-> SetItem(dict,
                              CirconscriptionCode(dept, para.ordinal),
                              CandidateInfo(para))]
       ELSE [dept |-> dept, dict |-> dict]

\* one iteration of the for loop of lines 46-82, as a function of the paragraph,
\* the current department code and the dictionary
LoopBody(para, dept_code, dict) ==
    IF dept_match(para)
    THEN [dept |-> para.paren, dict |-> dict]
    ELSE IF CandidateCondition(para, dept_code)
         THEN [dept |-> dept_code,
               dict |-> SetItem(dict,
                                CirconscriptionCode(dept_code, para.ordinal),
                                CandidateInfo(para))]
         ELSE [dept |-> dept_code, dict |-> dict]

\* a table with no column and no row
NoTable == [columns |-> {}, rows |-> <<>>]

(* The paragraphs the model's documents are made of *)
NoText == <<>>
HeaderParens == { <<"0","1">>, <<"9","7","1">>, <<"2","A">> }
HeaderParagraphs == { Para(p, NoText, NoText, NoText) : p \in HeaderParens }
NameAB == <<"A"," ","\t","b">>
NameB == <<"b">>
CandidateParagraphs ==
    { Para(NoText, <<"1">>, NameAB, <<"F","I">>),
      Para(NoText, <<"1">>, NameB, <<"N","P","A">>),
      Para(NoText, <<"0","1">>, NameB, <<" ","P","C","F"," ">>),
      Para(NoText, <<"1","0">>, NameAB, <<"F","I">>),
      Para(NoText, <<"1">>, NameAB, <<" ">>),
      Para(NoText, <<"2">>, <<" ">>, <<"F","I">>) }
HeaderAndCandidate == Para(<<"9","7","1">>, <<"1">>, NameB, <<"F","I">>)
MalformedParagraphs ==
    { Para(NoText, NoText, NameAB, <<"F","I">>),
      Para(NoText, <<"1">>, NoText, <<"F","I">>),
      Para(NoText, <<"1">>, NameAB, NoText) }
Paragraphs ==
    HeaderParagraphs \cup CandidateParagraphs \cup {HeaderAndCandidate}
        \cup MalformedParagraphs
Documents == UNION { [1..n -> Paragraphs] : n \in 0..MaxParagraphs }

ParseIdle ==
    /\ paragraphs = <<>> /\ pos = 0 /\ current_dept_code = None
    /\ candidates = EmptyDict
FindIdle ==
    /\ nom = NaN /\ prenom = NaN /\ circonscription_code = <<>>
    /\ candidates_dict = EmptyDict /\ party = None
ProcessIdle ==
    /\ variant = "" /\ df = NoTable /\ df_read = NoTable /\ i = 0 /\ ug_rows = <<>>
    /\ total_ug = 0 /\ replaced = 0 /\ not_found = 0 /\ visits = <<>>

\* lines 37-44: the document is read and cut into paragraphs
ParseInit ==
    /\ pc = "parse"
    /\ paragraphs \in Documents
    /\ pos = 1
    /\ current_dept_code = None
    /\ candidates = EmptyDict
    /\ FindIdle /\ ProcessIdle

\* lines 48-51: the paragraph is a department header
ScanHeader ==
    /\ pc = "parse" /\ pos <= Len(paragraphs)
    /\ dept_match(paragraphs[pos])
    /\ current_dept_code' = LoopBody(paragraphs[pos], current_dept_code, candidates).dept
    /\ candidates' = LoopBody(paragraphs[pos], current_dept_code, candidates).dict
    /\ pos' = pos + 1
    /\ UNCHANGED <<pc, paragraphs, findVars, processVars>>

\* lines 55-82: the paragraph is a candidate line under a department
ScanCandidate ==
    /\ pc = "parse" /\ pos <= Len(paragraphs)
    /\ ~dept_match(paragraphs[pos])
    /\ CandidateCondition(paragraphs[pos], current_dept_code)
    /\ current_dept_code' = LoopBody(paragraphs[pos], current_dept_code, candidates).dept
    /\ candidates' = LoopBody(paragraphs[pos], current_dept_code, candidates).dict
    /\ pos' = pos + 1
    /\ UNCHANGED <<pc, paragraphs, findVars, processVars>>

\* lines 55-60: the paragraph is neither, or a candidate line under no department
ScanOther ==
    /\ pc = "parse" /\ pos <= Len(paragraphs)
    /\ ~dept_match(paragraphs[pos])
    /\ ~CandidateCondition(paragraphs[pos], current_dept_code)
    /\ current_dept_code' = LoopBody(paragraphs[pos], current_dept_code, candidates).dept
    /\ candidates' = LoopBody(paragraphs[pos], current_dept_code, candidates).dict
    /\ pos' = pos + 1
    /\ UNCHANGED <<pc, paragraphs, findVars, processVars>>

\* line 84
ParseReturn ==
    /\ pc = "parse" /\ pos > Len(paragraphs)
    /\ pc' = "parsed"
    /\ UNCHANGED <<parseVars, findVars, processVars>>

ParseNext == ScanHeader \/ ScanCandidate \/ ScanOther \/ ParseReturn

SpecParse == ParseInit /\ [][ParseNext]_vars

-----------------------------------------------------------------------------
(* normalize_name and find_candidate_party *)

\* pd.isna(name) of a cell: a missing value, or None for a missing column
IsNa(name) == name = NaN \/ name = None

normalize_name(name) ==
    IF IsNa(name) THEN <<>> ELSE JoinSpace(Split(Lower(name)))

\* the three tests of find_candidate_party, each left out when its flag is FALSE,
\* and the value returned for a code that is not in the dictionary
FindWith(nomArg, prenomArg, codeArg, dictArg, absent, t1, t2, t3) ==
    IF codeArg \notin DOMAIN dictArg
    THEN absent
    ELSE LET candidate_info == dictArg[codeArg]
             candidate_full_name == candidate_info.name
             nom_normalized == normalize_name(nomArg)
             prenom_normalized == normalize_name(prenomArg)
             full_name == Strip(prenom_normalized \o <<" ">> \o nom_normalized)
         IN IF \/ (t1 /\ In(prenom_normalized, candidate_full_name)
                      /\ In(nom_normalized, candidate_full_name))
               \/ (t2 /\ In(candidate_full_name, full_name))
               \/ (t3 /\ In(full_name, candidate_full_name))
            THEN candidate_info.party
            ELSE None

\* find_candidate_party with the bug of returning "" for an unknown code
FindAbsentEmpty(nomArg, prenomArg, codeArg, dictArg) ==
    FindWith(nomArg, prenomArg, codeArg, dictArg, <<>>, TRUE, TRUE, TRUE)

\* find_candidate_party with the bug of comparing the full names only
FindFullNameOnly(nomArg, prenomArg, codeArg, dictArg) ==
    FindWith(nomArg, prenomArg, codeArg, dictArg, None, FALSE, TRUE, TRUE)

\* find_candidate_party with the bug of leaving out "candidate_full_name in full_name"
FindNoSecondTest(nomArg, prenomArg, codeArg, dictArg) ==
    FindWith(nomArg, prenomArg, codeArg, dictArg, None, TRUE, FALSE, TRUE)

find_candidate_party(nomArg, prenomArg, codeArg, dictArg) ==
    IF codeArg \notin DOMAIN dictArg
    THEN None
    ELSE LET candidate_info == dictArg[codeArg]
             candidate_full_name == candidate_info.name
             nom_normalized == normalize_name(nomArg)
             prenom_normalized == normalize_name(prenomArg)
             full_name == Strip(prenom_normalized \o <<" ">> \o nom_normalized)
         IN IF \/ (In(prenom_normalized, candidate_full_name)
                      /\ In(nom_normalized, candidate_full_name))
               \/ In(candidate_full_name, full_name)
               \/ In(full_name, candidate_full_name)
            THEN candidate_info.party
            ELSE None

(* The inputs of the model's calls *)
NameAlphabet == {"a", "B", " "}
TextsUpTo(alphabet, n) == UNION { [1..k -> alphabet] : k \in 0..n }
\* the surname and given name of the example of the docstrings: DOE Jane, SMITH John
NomDoe == <<"D","O","E">>
NomSmith == <<"S","M","I","T","H">>
PrenomJane == <<"J","a","n","e">>
PrenomJohn == <<"J","o","h","n">>
NomCells == {NaN} \cup TextsUpTo(NameAlphabet, MaxNameLen) \cup {NomDoe, NomSmith}
PrenomCells == {NaN} \cup TextsUpTo(NameAlphabet, MaxNameLen) \cup {PrenomJane, PrenomJohn}

\* the dictionary parse_html_candidate_list returns for a header (01) followed by
\* the candidate line of the first circonscription with this name and party text
RosterOf(name, ptext) ==
    LoopBody(Para(NoText, <<"1">>, name, ptext), <<"0","1">>, EmptyDict).dict
Code0101 == <<"0","1","0","1">>
Code0102 == <<"0","1","0","2">>
RosterPartyTexts == { <<"F","I">>, <<" ">> }
Rosters ==
    { RosterOf(name, ptext) :
        name \in TextsUpTo(NameAlphabet, MaxRosterLen) \ {<<>>},
        ptext \in RosterPartyTexts }
    \cup { RosterOf(<<"J","a","n","e"," ","D","O","E">>, <<"P","S","-","P","P">>),
           EmptyDict }

FindInit ==
    /\ pc = "find"
    /\ nom \in NomCells
    /\ prenom \in PrenomCells
    /\ circonscription_code \in {Code0101, Code0102}
    /\ candidates_dict \in Rosters
    /\ party = None
    /\ ParseIdle /\ ProcessIdle

\* lines 100-101
FindAbsent ==
    /\ pc = "find"
    /\ circonscription_code \notin DOMAIN candidates_dict
    /\ party' = find_candidate_party(nom, prenom, circonscription_code, candidates_dict)
    /\ pc' = "found"
    /\ UNCHANGED <<nom, prenom, circonscription_code, candidates_dict, parseVars, processVars>>

\* lines 103-117
FindPresent ==
    /\ pc = "find"
    /\ circonscription_code \in DOMAIN candidates_dict
    /\ party' = find_candidate_party(nom, prenom, circonscription_code, candidates_dict)
    /\ pc' = "found"
    /\ UNCHANGED <<nom, prenom, circonscription_code, candidates_dict, parseVars, processVars>>

FindNext == FindAbsent \/ FindPresent

SpecFind == FindInit /\ [][FindNext]_vars

-----------------------------------------------------------------------------
(* process_resultats_circonscription_tour_1, process_candidatures_tour_2 and   *)
(* process_resultats_circonscription_tour_2                                    *)
(*                                                                             *)
(* A table is [columns, rows]: columns is the set of the candidate slots k     *)
(* whose nuance column ("Nuance candidat k"; slot 1 is "Code nuance" in        *)
(* candidatures_tour_2) is in df.columns, and rows is the sequence of the      *)
(* rows, each [code, cells] with cells[k] = [nuance, nom, prenom].             *)

UG == <<"U","G">>

\* max_candidates of process_resultats_circonscription_tour_1
MaxCandidatesTour1 == 15
\* max_candidates of process_resultats_circonscription_tour_2
MaxCandidatesTour2 == 6

Variants == {"resultats_tour_1", "resultats_tour_2", "candidatures_tour_2"}

\* the last slot the function looks at: range(1, max_candidates + 1), or the one
\* column "Code nuance" of process_candidatures_tour_2
max_candidates(v) ==
    IF v = "resultats_tour_1" THEN MaxCandidatesTour1
    ELSE IF v = "resultats_tour_2" THEN MaxCandidatesTour2
    ELSE 1

\* df[nuance_col] == "UG", as df[ug_mask].index: the rows' labels in order
UgMask(table, col) ==
    SelectSeq([r \in 1..Len(table.rows) |-> r],
              LAMBDA r : table.rows[r].cells[col].nuance = UG)

\* find_candidate_party for the candidate of slot col of row idx
RowParty(table, idx, col, dict) ==
    LET row == table.rows[idx]
        code == ZFill(row.code, 4)
    IN find_candidate_party(row.cells[col].nom, row.cells[col].prenom, code, dict)

\* df.loc[idx, nuance_col] = value
SetNuance(table, idx, col, value) ==
    [table EXCEPT !.rows[idx].cells[col].nuance = value]

\* RowBody with the bug of an else branch that does not count the row
RowBodyNoCount(table, idx, col, dict, nReplaced, nNotFound) ==
    LET found == RowParty(table, idx, col, dict)
    IN IF Truthy(found)
       THEN [df |-> SetNuance(table, idx, col, found),
             replaced |-> nReplaced + 1, not_found |-> nNotFound,
             outcome |-> "replaced"]
       ELSE [df |-> table,
             replaced |-> nReplaced, not_found |-> nNotFound,
             outcome |-> "not_found"]

\* the body of the loop over df[ug_mask].index, as a function of the table and the
\* two counters
RowBody(table, idx, col, dict, nReplaced, nNotFound) ==
    LET found == RowParty(table, idx, col, dict)
    IN IF Truthy(found)
       THEN [df |-> SetNuance(table, idx, col, found),
             replaced |-> nReplaced + 1, not_found |-> nNotFound,
             outcome |-> "replaced"]
       ELSE [df |-> table,
             replaced |-> nReplaced, not_found |-> nNotFound + 1,
             outcome |-> "not_found"]

(* The tables and rosters of the model *)
CellValues ==
    { [nuance |-> UG, nom |-> <<"B">>, prenom |-> <<"A">>],
      [nuance |-> UG, nom |-> <<"C">>, prenom |-> NaN],
      [nuance |-> <<"R","N">>, nom |-> <<"B">>, prenom |-> <<"A">>] }
CodeCells == { <<"1","0","1">>, <<"9">> }
ColumnSets(v) ==
    IF v = "candidatures_tour_2" THEN { {}, {1} } ELSE { {}, {1}, {1, 7} }
RowsOf(cols) == [code : CodeCells, cells : [cols -> CellValues]]
Tables(v) ==
    UNION { { [columns |-> cols, rows |-> rows] :
                rows \in UNION { [1..n -> RowsOf(cols)] : n \in 0..MaxRows } } :
            cols \in ColumnSets(v) }
CellsOf(table) == (1..Len(table.rows)) \X table.columns
ProcessRosters == { RosterOf(NameAB, <<"N","P","A">>), RosterOf(NameAB, <<" ">>) }

\* pd.read_excel and the counters set to 0
ProcessInit ==
    /\ pc = "column"
    /\ variant \in Variants
    /\ df \in Tables(variant)
    /\ df_read = df
    /\ candidates_dict \in ProcessRosters
    /\ i = 1
    /\ ug_rows = <<>>
    /\ total_ug = 0 /\ replaced = 0 /\ not_found = 0
    /\ visits = [cell \in CellsOf(df) |-> <<>>]
    /\ nom = NaN /\ prenom = NaN /\ circonscription_code = <<>> /\ party = None
    /\ ParseIdle

\* "if nuance_col not in df.columns: continue", and the else branch of
\* process_candidatures_tour_2
SkipColumn ==
    /\ pc = "column" /\ i <= max_candidates(variant)
    /\ i \notin df.columns
    /\ i' = i + 1
    /\ UNCHANGED <<pc, variant, df, df_read, ug_rows, total_ug, replaced, not_found,
                   visits, parseVars, findVars>>

\* ug_mask = df[nuance_col] == "UG"; total_ug += ug_mask.sum()
MaskColumn ==
    /\ pc = "column" /\ i <= max_candidates(variant)
    /\ i \in df.columns
    /\ ug_rows' = UgMask(df, i)
    /\ total_ug' = total_ug + Len(UgMask(df, i))
    /\ pc' = "rows"
    /\ UNCHANGED <<variant, df, df_read, i, replaced, not_found, visits,
                   parseVars, findVars>>

\* one row of df[ug_mask].index whose party is found: "if party:"
VisitReplace ==
    /\ pc = "rows" /\ ug_rows # <<>>
    /\ Truthy(RowParty(df, Head(ug_rows), i, candidates_dict))
    /\ LET body == RowBody(df, Head(ug_rows), i, candidates_dict, replaced, not_found)
       IN /\ df' = body.df
          /\ replaced' = body.replaced
          /\ not_found' = body.not_found
          /\ visits' = [visits EXCEPT ![<<Head(ug_rows), i>>] = Append(@, body.outcome)]
    /\ ug_rows' = Tail(ug_rows)
    /\ UNCHANGED <<pc, variant, df_read, i, total_ug, parseVars, findVars>>

\* one row of df[ug_mask].index whose party is not found: "else:"
VisitNotFound ==
    /\ pc = "rows" /\ ug_rows # <<>>
    /\ ~Truthy(RowParty(df, Head(ug_rows), i, candidates_dict))
    /\ LET body == RowBody(df, Head(ug_rows), i, candidates_dict, replaced, not_found)
       IN /\ df' = body.df
          /\ replaced' = body.replaced
          /\ not_found' = body.not_found
          /\ visits' = [visits EXCEPT ![<<Head(ug_rows), i>>] = Append(@, body.outcome)]
    /\ ug_rows' = Tail(ug_rows)
    /\ UNCHANGED <<pc, variant, df_read, i, total_ug, parseVars, findVars>>

\* the rows of the column are done: the next i
NextColumn ==
    /\ pc = "rows" /\ ug_rows = <<>>
    /\ i' = i + 1
    /\ pc' = "column"
    /\ UNCHANGED <<variant, df, df_read, ug_rows, total_ug, replaced, not_found,
                   visits, parseVars, findVars>>

\* the statistics are printed, the table is saved and returned
ProcessReturn ==
    /\ pc = "column" /\ i > max_candidates(variant)
    /\ pc' = "processed"
    /\ UNCHANGED <<parseVars, findVars, processVars>>

ProcessNext ==
    SkipColumn \/ MaskColumn \/ VisitReplace \/ VisitNotFound \/ NextColumn
        \/ ProcessReturn

SpecProcess == ProcessInit /\ [][ProcessNext]_vars

-----------------------------------------------------------------------------
(* Properties of parse_html_candidate_list, checked under SpecParse *)

\* the paragraphs the for loop has been through
Scanned == 1..(pos - 1)

Max(S) == CHOOSE x \in S : \A y \in S : y <= x

\* a department header block as the roster's format defines it: a department name
\* in <strong> followed by a code of 2 or 3 characters in parentheses
HeaderBlock(para) == Len(para.paren) \in 2..3

\* a candidate block whose ordinal, name and party can all be extracted
WellFormedCandidate(para) ==
    para.ordinal # <<>> /\ para.name # <<>> /\ para.ptext # <<>>

\* the code of the last paragraph before paragraph k that the header pattern
\* matches, None when there is none
DeptBefore(k) ==
    LET hs == { h \in 1..(k - 1) : dept_match(paragraphs[h]) }
    IN IF hs = {} THEN None ELSE paragraphs[Max(hs)].paren

\* paragraph k is a candidate line that is stored under the code
MapsTo(k, code) ==
    /\ ~dept_match(paragraphs[k]) /\ candidate_match(paragraphs[k])
    /\ DeptBefore(k) # None
    /\ CirconscriptionCode(DeptBefore(k), paragraphs[k].ordinal) = code
BlocksFor(code) == { k \in Scanned : MapsTo(k, code) }

\* C1: every key of the dictionary is 4 characters long, whatever the department
\* codes of the headers and the ordinals of the candidate lines scanned so far.
C1_KeysHaveLength4 == \A code \in DOMAIN candidates : Len(code) = 4

\* C2: while no department header has been scanned, that is while the current
\* department code is None, the dictionary is empty: a candidate line with no header
\* before it adds no entry.
C2_NoHeaderNoEntry ==
    /\ current_dept_code = None => DOMAIN candidates = {}
    /\ (\A k \in Scanned : ~dept_match(paragraphs[k])) => DOMAIN candidates = {}

\* a candidate line has been scanned and the whole document holds no header
C2_Witness ==
    /\ pc = "parsed" /\ current_dept_code = None
    /\ \E k \in Scanned : WellFormedCandidate(paragraphs[k])

\* C3: the dictionary holds one record per code, for exactly the codes some scanned
\* candidate line maps to, and the record of a code (name, party code, raw party
\* text) is the one of the last scanned line that maps to it.
C3_LastBlockWins ==
    /\ \A code \in DOMAIN candidates :
          /\ BlocksFor(code) # {}
          /\ candidates[code] = CandidateInfo(paragraphs[Max(BlocksFor(code))])
    /\ \A k \in Scanned :
          ~dept_match(paragraphs[k]) /\ candidate_match(paragraphs[k])
                /\ DeptBefore(k) # None
             => CirconscriptionCode(DeptBefore(k), paragraphs[k].ordinal)
                    \in DOMAIN candidates

\* two scanned candidate lines with different records map to one code
C3_Witness ==
    /\ pc = "parsed"
    /\ \E code \in DOMAIN candidates :
          \E j, k \in BlocksFor(code) :
             j < k /\ CandidateInfo(paragraphs[j]) # CandidateInfo(paragraphs[k])

\* C6: once a header whose code in parentheses is 2A has been scanned, the current
\* department code is 2A, and a candidate line of the 1st circonscription scanned
\* right after it leaves an entry whose key starts with 2A and ends with 1.
C6_SuffixHeaderSetsDept ==
    /\ pos > 1 /\ paragraphs[pos - 1].paren = <<"2","A">>
          => current_dept_code = <<"2","A">>
    /\ pos > 2 /\ paragraphs[pos - 2].paren = <<"2","A">>
             /\ ~HeaderBlock(paragraphs[pos - 1])
             /\ WellFormedCandidate(paragraphs[pos - 1])
             /\ ParseInt(paragraphs[pos - 1].ordinal) = 1
          => \E code \in DOMAIN candidates :
                /\ SubSeq(code, 1, 2) = <<"2","A">>
                /\ code[Len(code)] = "1"

\* the code of the last header block before paragraph k, None when there is none
HeaderBefore(k) ==
    LET hs == { h \in 1..(k - 1) : HeaderBlock(paragraphs[h]) }
    IN IF hs = {} THEN None ELSE paragraphs[Max(hs)].paren

\* C7: in every step of the scan the current department code changes only if the
\* paragraph is a header block; a well-formed candidate line that follows a header
\* is stored under the key made of the code of the last header block before it; a
\* paragraph that is neither leaves the department code and the dictionary as they
\* are; and the scan goes on to the next paragraph.
C7_StickyDepartment ==
    [][ pc = "parse" /\ pos <= Len(paragraphs) =>
          LET para == paragraphs[pos]
              key == CirconscriptionCode(HeaderBefore(pos), para.ordinal)
          IN /\ pos' = pos + 1 /\ pc' = "parse"
             /\ current_dept_code' # current_dept_code => HeaderBlock(para)
             /\ ~HeaderBlock(para) /\ WellFormedCandidate(para)
                      /\ HeaderBefore(pos) # None
                   => /\ key \in DOMAIN candidates'
                      /\ candidates'[key] = CandidateInfo(para)
                      /\ \A code \in DOMAIN candidates' \ {key} :
                            code \in DOMAIN candidates
                               /\ candidates'[code] = candidates[code]
             /\ ~HeaderBlock(para) /\ ~WellFormedCandidate(para)
                   => current_dept_code' = current_dept_code
                         /\ candidates' = candidates ]_vars

\* C8: the step that scans a paragraph which both patterns match sets the current
\* department code to the paragraph's code and leaves the dictionary as it is.
C8_HeaderOnly ==
    [][ pc = "parse" /\ pos <= Len(paragraphs)
           /\ DeptCodePattern(paragraphs[pos].paren)
           /\ WellFormedCandidate(paragraphs[pos])
        => /\ current_dept_code' = paragraphs[pos].paren
           /\ candidates' = candidates ]_vars

\* a paragraph that both patterns match has been scanned under a department
C8_Witness ==
    /\ pos > 2
    /\ dept_match(paragraphs[pos - 2])
    /\ paragraphs[pos - 1] = HeaderAndCandidate
    /\ current_dept_code = HeaderAndCandidate.paren

-----------------------------------------------------------------------------
(* Properties of find_candidate_party, checked under SpecFind *)

\* a is a substring of b
Substring(a, b) == \E lo \in 1..(Len(b) + 1), hi \in 0..Len(b) : SubSeq(b, lo, hi) = a

\* "<given> <surname>", trimmed
FullName(given, surname) ==
    IF given = <<>> THEN surname
    ELSE IF surname = <<>> THEN given
    ELSE given \o <<" ">> \o surname

\* a cell that is missing or holds whitespace only
Blank(cell) == cell = NaN \/ \A k \in 1..Len(cell) : cell[k] \in {" ", "\t", "\n"}

\* C4: for a code that is not a key of the dictionary the result is None, whatever
\* the surname and the given name.
C4_AbsentCodeNotFound ==
    pc = "found" /\ circonscription_code \notin DOMAIN candidates_dict
        => party = None

\* an unknown code has been looked up in a roster that is not empty, with a name
C4_Witness ==
    /\ pc = "found" /\ party = None
    /\ circonscription_code \notin DOMAIN candidates_dict
    /\ DOMAIN candidates_dict # {}
    /\ nom = <<"B">> /\ prenom = <<"a">>

\* C5: when the roster name at the code is the normalized given name and the
\* normalized surname separated by one space, in either order, the result is the
\* party code of that entry.
C5_OrderInvariance ==
    pc = "found" /\ circonscription_code \in DOMAIN candidates_dict
        => LET entry == candidates_dict[circonscription_code]
               given == normalize_name(prenom)
               surname == normalize_name(nom)
           IN \/ entry.name = given \o <<" ">> \o surname
              \/ entry.name = surname \o <<" ">> \o given
              => party = entry.party

\* a row matched surname first against a roster name whose two words differ
C5_Witness ==
    /\ pc = "found" /\ circonscription_code \in DOMAIN candidates_dict
    /\ nom = <<"B">> /\ prenom = <<"a">>
    /\ candidates_dict[circonscription_code].name = <<"b"," ","a">>
    /\ party = <<"F","I">>

\* C9: for a code of the dictionary the result is the entry's party code if one of
\* the three substring tests holds on the normalized values and None otherwise; the
\* row SMITH John against the roster name "jane doe" gives None, and a row whose
\* surname and given name are both blank gives the entry's party code.
C9_ThreeTests ==
    pc = "found" /\ circonscription_code \in DOMAIN candidates_dict
        => LET entry == candidates_dict[circonscription_code]
               given == normalize_name(prenom)
               surname == normalize_name(nom)
               full == FullName(given, surname)
               match == \/ (Substring(surname, entry.name) /\ Substring(given, entry.name))
                        \/ Substring(entry.name, full)
                        \/ Substring(full, entry.name)
           IN /\ party = IF match THEN entry.party ELSE None
              /\ nom = NomSmith /\ prenom = PrenomJohn
                    /\ entry.name = <<"j","a","n","e"," ","d","o","e">>
                 => party = None
              /\ Blank(nom) /\ Blank(prenom) => party = entry.party

\* a row with no surname and a given name of one space got the entry's party code
C9_Witness ==
    /\ pc = "found" /\ circonscription_code \in DOMAIN candidates_dict
    /\ nom = NaN /\ prenom = <<" ">>
    /\ candidates_dict[circonscription_code].name = <<"a"," ","b">>
    /\ party = <<"F","I">>

-----------------------------------------------------------------------------
(* Properties of the process_* functions, checked under SpecProcess *)

\* the cell of slot c of row r held "UG" when the table was read
WasUG(r, c) == df_read.rows[r].cells[c].nuance = UG

\* what find_candidate_party returns for the candidate of slot c of row r
PartyFor(r, c) ==
    find_candidate_party(df_read.rows[r].cells[c].nom, df_read.rows[r].cells[c].prenom,
                         ZFill(df_read.rows[r].code, 4), candidates_dict)

\* the accounting of a processed table, where the cells the function goes through
\* are the "UG" cells of the slots given, and a row counts as not found when
\* find_candidate_party returns one of the values of notFound for it
Accounting(slots, notFound) ==
    /\ replaced + not_found = total_ug
    /\ df.columns = df_read.columns /\ Len(df.rows) = Len(df_read.rows)
    /\ \A r \in 1..Len(df_read.rows) : df.rows[r].code = df_read.rows[r].code
    /\ \A cell \in CellsOf(df_read) :
          LET r == cell[1]
              c == cell[2]
              before == df_read.rows[r].cells[c]
              after == df.rows[r].cells[c]
          IN /\ after.nom = before.nom /\ after.prenom = before.prenom
             /\ Len(visits[cell]) = IF WasUG(r, c) /\ c \in slots THEN 1 ELSE 0
             /\ IF WasUG(r, c) /\ c \in slots /\ PartyFor(r, c) \notin notFound
                THEN visits[cell] = <<"replaced">> /\ after.nuance = PartyFor(r, c)
                ELSE visits[cell] # <<"replaced">> /\ after.nuance = before.nuance
    /\ replaced = Cardinality({ cell \in CellsOf(df_read) : visits[cell] = <<"replaced">> })
    /\ not_found = Cardinality({ cell \in CellsOf(df_read) : visits[cell] = <<"not_found">> })

=============================================================================
